---------------------------- MODULE Spec2Model ----------------------------
(***************************************************************************)
(* Fish-Net API (src/api/index.py): one FastAPI application, a permissive  *)
(* CORSMiddleware and two GET handlers.                                    *)
(*                                                                         *)
(* The module models the ASGI call chain that index.py assembles:          *)
(*   server -> FastAPI.__call__ -> CORSMiddleware -> Router -> endpoint    *)
(* and back through CORSMiddleware.send to the client.  A request is a     *)
(* record (method, path, headers); a path is the sequence of its segments  *)
(* after the leading slash ("/" is <<"">>, a trailing slash is a last ""   *)
(* segment); a header value is the sequence of its comma separated tokens; *)
(* a header map is a set of <<name, value>> pairs.  Content-Type,          *)
(* Content-Length and Allow headers are left out.                          *)
(***************************************************************************)
EXTENDS Naturals, Sequences, FiniteSets

VARIABLES
    routes,            \* app.router.routes, in registration order
    user_middleware,   \* app.user_middleware, filled by add_middleware
    middleware_stack,  \* app.middleware_stack: <<>> until the first call
    openapi_schema,    \* app.openapi_schema: cached by GET /openapi.json
    conn,              \* per connection: the request being served
    first              \* observer's log: first body seen per defined route

vars == <<routes, user_middleware, middleware_stack, openapi_schema, conn, first>>

\* Number of connections the server serves at the same time.
MaxInFlight == 2

Conns == 1 .. MaxInFlight

-----------------------------------------------------------------------------
(* Header maps *)

Has(h, n) == \E p \in h : p[1] = n

Get(h, n) == (CHOOSE p \in h : p[1] = n)[2]

Put(h, n, v) == {p \in h : p[1] # n} \cup {<<n, v>>}

\* MutableHeaders.update(d): every key of d replaces the header of that name
Update(h, d) == {p \in h : ~Has(d, p[1])} \cup d

\* MutableHeaders.add_vary_header
AddVary(h, v) ==
    IF Has(h, "vary") THEN Put(h, "vary", Get(h, "vary") \o <<v>>)
    ELSE Put(h, "vary", <<v>>)

-----------------------------------------------------------------------------
(* Requests *)

Methods == {"GET", "HEAD", "POST", "OPTIONS"}

RootPath      == <<"">>
HealthPath    == <<"api", "health">>
HealthSlash   == <<"api", "health", "">>
NopePath      == <<"nope">>
OpenapiPath   == <<"openapi.json">>
DocsPath      == <<"docs">>
OAuthPath     == <<"docs", "oauth2-redirect">>
RedocPath     == <<"redoc">>

Paths == {RootPath, HealthPath, HealthSlash, NopePath,
          OpenapiPath, DocsPath, OAuthPath, RedocPath}

AnOrigin == <<"https://a.example">>

HeaderChoices ==
    { o \cup k \cup m \cup h :
        o \in {{}, {<<"origin", AnOrigin>>}},
        k \in {{}, {<<"cookie", <<"sid=1">>>>}},
        m \in {{}, {<<"access-control-request-method", <<"GET">>>>},
                   {<<"access-control-request-method", <<"TRACE">>>>}},
        h \in {{}, {<<"access-control-request-headers", <<"x-token">>>>}} }

Requests == [method : Methods, path : Paths, headers : HeaderChoices]

\* The requests served side by side: the two defined paths; a GET that is
\* plain, cross-origin or cross-origin with a cookie, and a preflight.
ConcRequests ==
    { r \in Requests :
        /\ r.path \in {RootPath, HealthPath}
        /\ \/ r.method = "GET" /\ r.headers \in {{}, {<<"origin", AnOrigin>>},
                                 {<<"origin", AnOrigin>>, <<"cookie", <<"sid=1">>>>}}
           \/ /\ r.method = "OPTIONS"
              /\ r.headers = {<<"origin", AnOrigin>>,
                              <<"access-control-request-method", <<"GET">>>>} }

NoReq == [method |-> "-", path |-> <<>>, headers |-> {}]

-----------------------------------------------------------------------------
(* Responses *)

Response(status, media, data, headers, location) ==
    [status |-> status, body |-> [media |-> media, data |-> data],
     headers |-> headers, location |-> location]

NoResp == Response(0, "-", {}, {}, <<>>)

NoBody == [media |-> "-", data |-> {}]

JSONResponse(status, content) ==
    Response(status, "application/json", content, {}, <<>>)

PlainTextResponse(status, text, headers) ==
    Response(status, "text/plain", {<<"", text>>}, headers, <<>>)

HTMLResponse(page) == Response(200, "text/html", {<<"", page>>}, {}, <<>>)

-----------------------------------------------------------------------------
(* Endpoints *)

\* root() with a version that lags behind the application's
root_stale == {<<"message", "Fish-Net API is running">>, <<"version", "0.4.0">>}

\* async def root()
root == {<<"message", "Fish-Net API is running">>, <<"version", "0.5.0">>}

\* health_check() reporting on a subsystem: the schema cache
health_check_probe ==
    {<<"status", IF openapi_schema = "None" THEN "healthy" ELSE "degraded">>}

\* async def health_check()
health_check == {<<"status", "healthy">>}

\* Endpoints whose answer reads the application's mutable state
CallEndpoint_stateful(name) ==
    IF name \in {"root", "health_check"}
    THEN JSONResponse(200, {<<"served", IF openapi_schema = "None"
                                        THEN "cold" ELSE "warm">>})
    ELSE HTMLResponse(name)

\* The response an endpoint produces.  FastAPI serialises the value a path
\* operation returns as a JSON response with status 200; the documentation
\* endpoints that FastAPI.setup registers answer with their own pages.
CallEndpoint(name) ==
    CASE name = "root"         -> JSONResponse(200, root)
      [] name = "health_check" -> JSONResponse(200, health_check)
      [] name = "openapi"      -> JSONResponse(200, {<<"openapi", "schema">>})
      [] name = "swagger_ui_html" -> HTMLResponse("swagger-ui")
      [] name = "swagger_ui_redirect" -> HTMLResponse("oauth2-redirect")
      [] name = "redoc_html"   -> HTMLResponse("redoc")

-----------------------------------------------------------------------------
(* Application construction *)

Route(path, methods, endpoint) ==
    [path |-> path, methods |-> methods, endpoint |-> endpoint]

\* starlette Route: a function endpoint with no methods given serves GET, and
\* a route that serves GET serves HEAD too.
StarletteRoute(path, endpoint) == Route(path, {"GET", "HEAD"}, endpoint)

\* An APIRoute that serves HEAD with GET, as a starlette Route does
APIRoute_head(path, endpoint) == Route(path, {"GET", "HEAD"}, endpoint)

\* fastapi APIRoute as built by @app.get: exactly the methods given.
APIRoute(path, endpoint) == Route(path, {"GET"}, endpoint)

\* FastAPI(..., openapi_url=None): no documentation routes
FastAPI_nodocs == << >>

\* app = FastAPI(title, description, version): openapi_url, docs_url,
\* swagger_ui_oauth2_redirect_url and redoc_url keep their defaults, so
\* FastAPI.setup registers the four documentation routes.
FastAPI ==
    << StarletteRoute(OpenapiPath, "openapi"),
       StarletteRoute(DocsPath, "swagger_ui_html"),
       StarletteRoute(OAuthPath, "swagger_ui_redirect"),
       StarletteRoute(RedocPath, "redoc_html") >>

\* The two routes and a catch-all that answers with root()
app_get_catchall ==
    << [path |-> RootPath, methods |-> {"GET"}, endpoint |-> "root"],
       [path |-> HealthPath, methods |-> {"GET"}, endpoint |-> "health_check"],
       [path |-> NopePath, methods |-> {"GET"}, endpoint |-> "root"] >>

\* @app.get("/") and @app.get("/api/health")
app_get == << APIRoute(RootPath, "root"), APIRoute(HealthPath, "health_check") >>

\* add_middleware without allow_credentials
cors_options_nocred ==
    [allow_origins |-> <<"*">>, allow_credentials |-> FALSE,
     allow_methods |-> <<"*">>, allow_headers |-> <<"*">>]

\* app.add_middleware(CORSMiddleware, ...): the keyword arguments
cors_options ==
    [allow_origins |-> <<"*">>, allow_credentials |-> TRUE,
     allow_methods |-> <<"*">>, allow_headers |-> <<"*">>]

ALL_METHODS == <<"DELETE", "GET", "HEAD", "OPTIONS", "PATCH", "POST", "PUT">>

SAFELISTED_HEADERS ==
    <<"Accept", "Accept-Language", "Content-Language", "Content-Type">>

Range(s) == {s[i] : i \in DOMAIN s}

\* CORSMiddleware.__init__, run when the middleware stack is built
CORSMiddleware(o) ==
    LET allow_methods == IF "*" \in Range(o.allow_methods) THEN ALL_METHODS
                         ELSE o.allow_methods
        allow_all_origins == "*" \in Range(o.allow_origins)
        allow_all_headers == "*" \in Range(o.allow_headers)
        explicit == ~allow_all_origins \/ o.allow_credentials
        simple ==
            (IF allow_all_origins
                THEN {<<"access-control-allow-origin", <<"*">>>>} ELSE {})
            \cup
            (IF o.allow_credentials
                THEN {<<"access-control-allow-credentials", <<"true">>>>} ELSE {})
        preflight ==
            (IF explicit THEN {<<"vary", <<"Origin">>>>}
                ELSE {<<"access-control-allow-origin", <<"*">>>>})
            \cup {<<"access-control-allow-methods", allow_methods>>,
                  <<"access-control-max-age", <<"600">>>>}
            \cup
            (IF ~allow_all_headers
                THEN {<<"access-control-allow-headers",
                        SAFELISTED_HEADERS \o o.allow_headers>>} ELSE {})
            \cup
            (IF o.allow_credentials
                THEN {<<"access-control-allow-credentials", <<"true">>>>} ELSE {})
    IN [allow_origins |-> Range(o.allow_origins),
        allow_methods |-> Range(allow_methods),
        allow_headers |-> Range(SAFELISTED_HEADERS \o o.allow_headers),
        allow_all_origins |-> allow_all_origins,
        allow_all_headers |-> allow_all_headers,
        preflight_explicit_allow_origin |-> explicit,
        simple_headers |-> simple,
        preflight_headers |-> preflight]

-----------------------------------------------------------------------------
(* CORSMiddleware, per request; m is the instance built by CORSMiddleware(o) *)

is_allowed_origin(m, origin) ==
    m.allow_all_origins \/ \E t \in m.allow_origins : <<t>> = origin

\* CORSMiddleware.__call__ answers the request itself (a preflight) instead
\* of calling the application
IsPreflight(req) ==
    /\ Has(req.headers, "origin")
    /\ req.method = "OPTIONS"
    /\ Has(req.headers, "access-control-request-method")

\* CORSMiddleware.__call__ wraps send (simple_response)
IsWrapped(req) == Has(req.headers, "origin") /\ ~IsPreflight(req)

\* CORSMiddleware.preflight_response
preflight_response(m, req) ==
    LET requested_origin == Get(req.headers, "origin")
        requested_method == Get(req.headers, "access-control-request-method")
        has_requested == Has(req.headers, "access-control-request-headers")
        origin_ok == is_allowed_origin(m, requested_origin)
        method_ok == \A i \in DOMAIN requested_method :
                        requested_method[i] \in m.allow_methods
        headers_ok ==
            \/ m.allow_all_headers
            \/ ~has_requested
            \/ \A t \in Range(Get(req.headers, "access-control-request-headers")) :
                  t \in m.allow_headers
        h1 == IF origin_ok /\ m.preflight_explicit_allow_origin
              THEN Put(m.preflight_headers,
                       "access-control-allow-origin", requested_origin)
              ELSE m.preflight_headers
        h2 == IF m.allow_all_headers /\ has_requested
              THEN Put(h1, "access-control-allow-headers",
                       Get(req.headers, "access-control-request-headers"))
              ELSE h1
        failures == (IF origin_ok THEN <<>> ELSE <<"origin">>)
                    \o (IF method_ok THEN <<>> ELSE <<"method">>)
                    \o (IF headers_ok THEN <<>> ELSE <<"headers">>)
    IN IF failures = <<>>
       THEN PlainTextResponse(200, "OK", h2)
       ELSE Response(400, "text/plain", {<<"Disallowed CORS", failures>>},
                     h2, <<>>)

\* CORSMiddleware.send that never names the origin
cors_send_star(m, req, resp) ==
    [resp EXCEPT !.headers = Update(resp.headers, m.simple_headers)]

\* CORSMiddleware.send on the http.response.start message of resp
cors_send(m, req, resp) ==
    LET origin == Get(req.headers, "origin")
        has_cookie == Has(req.headers, "cookie")
        h1 == Update(resp.headers, m.simple_headers)
        explicit == AddVary(Put(h1, "access-control-allow-origin", origin),
                            "Origin")
        h2 == IF m.allow_all_origins /\ has_cookie THEN explicit
              ELSE IF ~m.allow_all_origins /\ is_allowed_origin(m, origin)
                   THEN explicit
                   ELSE h1
    IN [resp EXCEPT !.headers = h2]

-----------------------------------------------------------------------------
(* Router *)

Last(s) == s[Len(s)]

\* Route.matches
Matches(route, method, path) ==
    IF route.path # path THEN "NONE"
    ELSE IF method \in route.methods THEN "FULL" ELSE "PARTIAL"

\* Router.app, the redirect_slashes candidate: the path with its trailing
\* slash removed or added
ToggleSlash(path) ==
    IF Last(path) = "" THEN SubSeq(path, 1, Len(path) - 1)
    ELSE Append(path, "")

\* Router.app: the endpoint to call, or the response the router gives itself
Resolve(rs, req) ==
    LET full == {i \in DOMAIN rs : Matches(rs[i], req.method, req.path) = "FULL"}
        part == {i \in DOMAIN rs : Matches(rs[i], req.method, req.path) = "PARTIAL"}
        redir == {i \in DOMAIN rs :
                    Matches(rs[i], req.method, ToggleSlash(req.path)) # "NONE"}
    IN IF full # {}
       THEN [endpoint |-> rs[CHOOSE i \in full : \A j \in full : i <= j].endpoint,
             resp |-> NoResp]
       ELSE IF part # {}
       THEN [endpoint |-> "",
             resp |-> JSONResponse(405, {<<"detail", "Method Not Allowed">>})]
       ELSE IF req.path # RootPath /\ redir # {}
       THEN [endpoint |-> "",
             resp |-> Response(307, "-", {}, {}, ToggleSlash(req.path))]
       ELSE [endpoint |-> "",
             resp |-> JSONResponse(404, {<<"detail", "Not Found">>})]

-----------------------------------------------------------------------------
(* The application serving requests *)

DefinedPaths == {RootPath, HealthPath}

Idle == [stage |-> "idle", req |-> NoReq, endpoint |-> "", resp |-> NoResp]

\* Starlette.build_middleware_stack: one instance per user_middleware entry
build_middleware_stack(um) ==
    [i \in DOMAIN um |-> CORSMiddleware(um[i].options)]

Init ==
    /\ routes = FastAPI \o app_get
    /\ user_middleware = <<[cls |-> "CORSMiddleware", options |-> cors_options]>>
    /\ middleware_stack = <<>>
    /\ openapi_schema = "None"
    /\ conn = [c \in Conns |-> Idle]
    /\ first = [p \in DefinedPaths |-> NoBody]

\* The server calls the application with a new request (Starlette.__call__):
\* the middleware stack is built on the first call.
Accept(c, R) ==
    /\ conn[c].stage = "idle"
    /\ \E r \in R :
          conn' = [conn EXCEPT ![c] = [stage |-> "cors", req |-> r,
                                       endpoint |-> "", resp |-> NoResp]]
    /\ middleware_stack' = IF middleware_stack = <<>>
                           THEN build_middleware_stack(user_middleware)
                           ELSE middleware_stack
    /\ UNCHANGED <<routes, user_middleware, openapi_schema, first>>

\* CORSMiddleware.__call__
CorsCall(c) ==
    /\ conn[c].stage = "cors"
    /\ conn' = [conn EXCEPT ![c] =
                  IF IsPreflight(conn[c].req)
                  THEN [@ EXCEPT !.stage = "done",
                                 !.resp = preflight_response(middleware_stack[1],
                                                             conn[c].req)]
                  ELSE [@ EXCEPT !.stage = "route"]]
    /\ UNCHANGED <<routes, user_middleware, middleware_stack, openapi_schema, first>>

\* Where a response produced behind the middleware goes next
After(req) == IF IsWrapped(req) THEN "send" ELSE "done"

\* Router.app
RouterCall(c) ==
    /\ conn[c].stage = "route"
    /\ LET r == Resolve(routes, conn[c].req)
       IN conn' = [conn EXCEPT ![c] =
                     IF r.endpoint # ""
                     THEN [@ EXCEPT !.stage = "endpoint", !.endpoint = r.endpoint]
                     ELSE [@ EXCEPT !.stage = After(conn[c].req), !.resp = r.resp]]
    /\ UNCHANGED <<routes, user_middleware, middleware_stack, openapi_schema, first>>

\* An endpoint that keeps the request it serves in a module global: it
\* answers for whichever request reached an endpoint, not for its own.
EndpointCall_shared(c) ==
    /\ conn[c].stage = "endpoint"
    /\ \E d \in Conns :
          /\ conn[d].stage = "endpoint"
          /\ conn' = [conn EXCEPT ![c] =
                        [@ EXCEPT !.stage = After(conn[c].req),
                                  !.resp = CallEndpoint(conn[d].endpoint)]]
    /\ openapi_schema' = IF conn[c].endpoint = "openapi" THEN "cached"
                         ELSE openapi_schema
    /\ UNCHANGED <<routes, user_middleware, middleware_stack, first>>

\* An endpoint that awaits the other endpoints in flight before it returns
EndpointCall_awaits(c) ==
    /\ conn[c].stage = "endpoint"
    /\ \A d \in Conns \ {c} : conn[d].stage # "endpoint"
    /\ conn' = [conn EXCEPT ![c] =
                  [@ EXCEPT !.stage = After(conn[c].req),
                            !.resp = CallEndpoint(conn[c].endpoint)]]
    /\ openapi_schema' = IF conn[c].endpoint = "openapi" THEN "cached"
                         ELSE openapi_schema
    /\ UNCHANGED <<routes, user_middleware, middleware_stack, first>>

\* The matched endpoint runs: root and health_check contain no await, so the
\* whole body is one step.  FastAPI.openapi caches the schema it generates.
EndpointCall(c) ==
    /\ conn[c].stage = "endpoint"
    /\ conn' = [conn EXCEPT ![c] =
                  [@ EXCEPT !.stage = After(conn[c].req),
                            !.resp = CallEndpoint(conn[c].endpoint)]]
    /\ openapi_schema' = IF conn[c].endpoint = "openapi" THEN "cached"
                         ELSE openapi_schema
    /\ UNCHANGED <<routes, user_middleware, middleware_stack, first>>

\* CORSMiddleware.send
CorsSend(c) ==
    /\ conn[c].stage = "send"
    /\ conn' = [conn EXCEPT ![c] =
                  [@ EXCEPT !.stage = "done",
                            !.resp = cors_send(middleware_stack[1],
                                               conn[c].req, conn[c].resp)]]
    /\ UNCHANGED <<routes, user_middleware, middleware_stack, openapi_schema, first>>

\* The client has the response; the observer logs the first body of each
\* defined route.
Complete(c) ==
    /\ conn[c].stage = "done"
    /\ first' = IF /\ conn[c].req.method = "GET"
                   /\ conn[c].req.path \in DefinedPaths
                   /\ first[conn[c].req.path] = NoBody
                THEN [first EXCEPT ![conn[c].req.path] = conn[c].resp.body]
                ELSE first
    /\ conn' = [conn EXCEPT ![c] = Idle]
    /\ UNCHANGED <<routes, user_middleware, middleware_stack, openapi_schema>>

\* The steps the application takes for an accepted request
Step(c) == CorsCall(c) \/ RouterCall(c) \/ EndpointCall(c) \/ CorsSend(c)

\* One request at a time, any request
Next ==
    \/ Accept(1, Requests)
    \/ Step(1)
    \/ Complete(1)

Spec == Init /\ [][Next]_vars

\* MaxInFlight requests side by side
ConcNext ==
    \E c \in Conns :
        \/ Accept(c, ConcRequests)
        \/ Step(c)
        \/ Complete(c)

ConcSpec == Init /\ [][ConcNext]_vars

\* The event loop runs every task that is ready
FairSpec == ConcSpec /\ \A c \in Conns : WF_vars(Step(c))

-----------------------------------------------------------------------------
(* Properties *)

Done(c) == conn[c].stage = "done"

Req(c) == conn[c].req

Resp(c) == conn[c].resp

Origin(c) == Has(Req(c).headers, "origin")

Cookie(c) == Has(Req(c).headers, "cookie")

GetOf(c, path) == Done(c) /\ Req(c).method = "GET" /\ Req(c).path = path

Json(data) == [media |-> "application/json", data |-> data]

RootPayload ==
    Json({<<"message", "Fish-Net API is running">>, <<"version", "0.5.0">>})

HealthPayload == Json({<<"status", "healthy">>})

ACAO == "access-control-allow-origin"
ACAC == "access-control-allow-credentials"
ACAM == "access-control-allow-methods"
ACAH == "access-control-allow-headers"
ACRM == "access-control-request-method"
ACRH == "access-control-request-headers"

\* C1: every GET / is answered 200 with exactly the root payload, whatever
\* headers the request carries.
C1_RootContract ==
    \A c \in Conns :
        GetOf(c, RootPath) => Resp(c).status = 200 /\ Resp(c).body = RootPayload

C1_Witness ==
    \E c \in Conns :
        /\ GetOf(c, RootPath)
        /\ Origin(c) /\ Cookie(c) /\ Has(Req(c).headers, ACRH)

\* C2: every GET /api/health is answered 200 with exactly {"status":
\* "healthy"}, in every state of the application.
C2_HealthContract ==
    \A c \in Conns :
        GetOf(c, HealthPath) =>
            Resp(c).status = 200 /\ Resp(c).body = HealthPayload

C2_Witness ==
    \E c \in Conns : GetOf(c, HealthPath) /\ openapi_schema = "cached"

\* C3 as stated: every response to GET / and GET /api/health carries
\* Access-Control-Allow-Origin: *.
C3_Original ==
    \A c \in Conns :
        Done(c) /\ Req(c).method = "GET" /\ Req(c).path \in DefinedPaths =>
            /\ Has(Resp(c).headers, ACAO)
            /\ Get(Resp(c).headers, ACAO) = <<"*">>

\* C3 amended: the response to GET / or GET /api/health carries
\* Access-Control-Allow-Origin: * when the request has an Origin header and no
\* Cookie header, the request's own origin when it has both, and no such
\* header when the request has no Origin header.
C3_AllowOrigin ==
    \A c \in Conns :
        Done(c) /\ Req(c).method = "GET" /\ Req(c).path \in DefinedPaths =>
            /\ Has(Resp(c).headers, ACAO) <=> Origin(c)
            /\ Origin(c) =>
                 Get(Resp(c).headers, ACAO) =
                    IF Cookie(c) THEN Get(Req(c).headers, "origin") ELSE <<"*">>

C3_Witness ==
    \E c \in Conns : GetOf(c, HealthPath) /\ Origin(c) /\ Cookie(c)

\* The paths of the model that index.py and FastAPI register no route for
UndefinedPaths == {NopePath, HealthSlash}

DocPaths == {OpenapiPath, DocsPath, OAuthPath, RedocPath}

\* The preflight asks for one of the seven methods the middleware allows
AsksAllowedMethod(c) ==
    \A t \in Range(Get(Req(c).headers, ACRM)) : t \in Range(ALL_METHODS)

\* The status CORSMiddleware gives a preflight
PreflightStatus(c) == IF AsksAllowedMethod(c) THEN 200 ELSE 400

\* C4 as stated: a request to an undefined path is never answered with a
\* 2xx status, nor with the payload of root() or health_check().
C4_Original ==
    \A c \in Conns :
        Done(c) /\ Req(c).path \in UndefinedPaths =>
            /\ Resp(c).status \notin 200 .. 299
            /\ Resp(c).body \notin {RootPayload, HealthPayload}

\* C4 amended: a request to an undefined path is answered 404, or 307 when
\* the path differs from a registered one only by its trailing slash, unless
\* it is a CORS preflight (OPTIONS with Origin and
\* Access-Control-Request-Method), which the middleware answers before
\* routing with 200 (400 for a method outside its list) and a plain text
\* body; no undefined path yields the payload of root() or health_check().
C4_UndefinedPath ==
    \A c \in Conns :
        Done(c) /\ Req(c).path \in UndefinedPaths =>
            /\ Resp(c).body \notin {RootPayload, HealthPayload}
            /\ IsPreflight(Req(c)) =>
                  /\ Resp(c).status = PreflightStatus(c)
                  /\ Resp(c).body.media = "text/plain"
            /\ ~IsPreflight(Req(c)) =>
                  Resp(c).status =
                     IF Req(c).path = HealthSlash THEN 307 ELSE 404

C4_Witness ==
    \E c \in Conns :
        /\ Done(c) /\ Req(c).path = NopePath /\ IsPreflight(Req(c))
        /\ Resp(c).status = 200

\* C5: the n-th GET to a defined route has the body of the first one, and
\* serving requests changes neither the route table nor the middleware
\* configuration.
C5_SameAsFirst ==
    \A c \in Conns : \A p \in DefinedPaths :
        GetOf(c, p) /\ first[p] # NoBody => Resp(c).body = first[p]

C5_NoStateChange ==
    /\ routes' = routes
    /\ user_middleware' = user_middleware
    /\ middleware_stack # <<>> => middleware_stack' = middleware_stack

C5_Idempotent == []C5_SameAsFirst /\ [][C5_NoStateChange]_vars

C5_Witness ==
    \E c \in Conns :
        /\ GetOf(c, RootPath) /\ first[RootPath] # NoBody
        /\ first[HealthPath] # NoBody
        /\ openapi_schema = "cached"

\* What a request gets when it is the only one the application ever serves
ServedAlone(req) ==
    LET m == CORSMiddleware(cors_options)
        r == Resolve(FastAPI \o app_get, req)
        inner == IF r.endpoint # "" THEN CallEndpoint(r.endpoint) ELSE r.resp
    IN IF IsPreflight(req) THEN preflight_response(m, req)
       ELSE IF IsWrapped(req) THEN cors_send(m, req, inner)
       ELSE inner

\* C6: under every interleaving, each request to / and /api/health gets the
\* status and body it would get if served alone.
C6_OrderIndependent ==
    \A c \in Conns :
        Done(c) =>
            /\ Resp(c).status = ServedAlone(Req(c)).status
            /\ Resp(c).body = ServedAlone(Req(c)).body

C6_Witness ==
    /\ GetOf(1, RootPath) /\ GetOf(2, HealthPath)
    /\ Resp(1).body = RootPayload /\ Resp(2).body = HealthPayload

CorsHeaderNames == {ACAO, ACAC, ACAM, ACAH}

\* C7 as stated: every response carries allow-origin *, allow-credentials
\* true, allow-methods * and allow-headers *.
C7_Original ==
    \A c \in Conns :
        Done(c) =>
            /\ \A n \in CorsHeaderNames : Has(Resp(c).headers, n)
            /\ Get(Resp(c).headers, ACAO) = <<"*">>
            /\ Get(Resp(c).headers, ACAC) = <<"true">>
            /\ Get(Resp(c).headers, ACAM) = <<"*">>
            /\ Get(Resp(c).headers, ACAH) = <<"*">>

\* C7 amended: a response to a request without an Origin header carries none
\* of the four headers.  A response to a request with an Origin header
\* carries allow-credentials true and allow-origin: the request's origin on a
\* preflight response or when the request has a Cookie header, * otherwise.
\* allow-methods is carried by preflight responses only and lists DELETE, GET,
\* HEAD, OPTIONS, PATCH, POST, PUT; allow-headers is carried only by a
\* preflight response whose request has Access-Control-Request-Headers, and
\* repeats that header.
C7_CorsHeaders ==
    \A c \in Conns :
        Done(c) =>
            LET h == Resp(c).headers
                pre == IsPreflight(Req(c))
            IN /\ ~Origin(c) => \A n \in CorsHeaderNames : ~Has(h, n)
               /\ Origin(c) =>
                    /\ Has(h, ACAC) /\ Get(h, ACAC) = <<"true">>
                    /\ Has(h, ACAO)
                    /\ Get(h, ACAO) = IF pre \/ Cookie(c)
                                      THEN Get(Req(c).headers, "origin")
                                      ELSE <<"*">>
               /\ Has(h, ACAM) <=> pre
               /\ pre => Get(h, ACAM) = ALL_METHODS
               /\ Has(h, ACAH) <=> pre /\ Has(Req(c).headers, ACRH)
               /\ Has(h, ACAH) => Get(h, ACAH) = Get(Req(c).headers, ACRH)

C7_Witness ==
    \E c \in Conns :
        /\ Done(c) /\ IsPreflight(Req(c)) /\ Has(Req(c).headers, ACRH)
        /\ Req(c).path = HealthPath

\* C8 as stated: a request to / or /api/health with a method other than GET
\* is answered 405, a preflight included.
C8_Original ==
    \A c \in Conns :
        Done(c) /\ Req(c).path \in DefinedPaths /\ Req(c).method # "GET" =>
            Resp(c).status = 405

\* C8 amended: a request to / or /api/health with a method other than GET is
\* answered 405, except an OPTIONS request carrying Origin and
\* Access-Control-Request-Method: CORSMiddleware answers it before routing,
\* with 200 and the body OK when the requested method is one of its seven,
\* with 400 otherwise.
C8_WrongMethod ==
    \A c \in Conns :
        Done(c) /\ Req(c).path \in DefinedPaths /\ Req(c).method # "GET" =>
            IF IsPreflight(Req(c))
            THEN /\ Resp(c).status = PreflightStatus(c)
                 /\ Resp(c).status = 200 =>
                       Resp(c).body = [media |-> "text/plain",
                                       data |-> {<<"", "OK">>}]
            ELSE Resp(c).status = 405

C8_Witness ==
    \E c \in Conns :
        /\ Done(c) /\ Req(c).path = RootPath /\ IsPreflight(Req(c))
        /\ Resp(c).status = 200

\* C9 as stated: the application answers 200 to GET / and GET /api/health
\* and to nothing else.
C9_Original ==
    \A c \in Conns :
        Done(c) /\ Resp(c).status = 200 =>
            Req(c).method = "GET" /\ Req(c).path \in DefinedPaths

\* C9 amended: the application answers 200 exactly to GET / and GET
\* /api/health, to GET and HEAD on the four routes FastAPI registers at
\* construction (/openapi.json, /docs, /docs/oauth2-redirect, /redoc), and to
\* a CORS preflight, on any path, that asks for one of the seven methods.
C9_Surface ==
    \A c \in Conns :
        Done(c) =>
            (Resp(c).status = 200 <=>
                \/ IsPreflight(Req(c)) /\ AsksAllowedMethod(c)
                \/ /\ ~IsPreflight(Req(c))
                   /\ \/ Req(c).method = "GET" /\ Req(c).path \in DefinedPaths
                      \/ /\ Req(c).method \in {"GET", "HEAD"}
                         /\ Req(c).path \in DocPaths)

C9_Witness ==
    \E c \in Conns :
        /\ Done(c) /\ Req(c).method = "HEAD" /\ Req(c).path = DocsPath
        /\ Resp(c).status = 200

\* C10: under fair scheduling every accepted request to / or /api/health
\* gets its response, whatever the other connections do.
C10_Responds ==
    \A c \in Conns : (conn[c].stage # "idle") ~> Done(c)

C10_Witness ==
    /\ conn[1].stage = "endpoint" /\ conn[2].stage = "endpoint"
    /\ conn[1].endpoint = "root" /\ conn[2].endpoint = "root"

=============================================================================
